---- MODULE Spec2Model ----
(***************************************************************************)
(* babel-plugin-transform-modern-regexp: the plugin's configuration step   *)
(* (pre), its three node handlers (RegExpLiteral, TaggedTemplateExpression,*)
(* NewExpression) and the helpers they call, for both revisions of         *)
(* index.js kept in the source: the first (lines 58-139) rewrites the      *)
(* arguments of `new RegExp(...)` in place, the current one (lines         *)
(* 237-376) replaces constructor calls and re`...` templates by regex      *)
(* literals, which the host then visits again.                             *)
(*                                                                         *)
(* A text is a sequence of one-character strings; "\\" is one backslash.   *)
(***************************************************************************)
EXTENDS Integers, Sequences, FiniteSets, TLC

VARIABLES version, opts, tree, orig, status, calls, pc

vars == <<version, opts, tree, orig, status, calls, pc>>

(***************************************************************************)
(* Bounds of the model.                                                    *)
(***************************************************************************)
\* Largest number of top-level constructs in the visited tree.
MaxNodes == 2

\* Longest raw chunk given to the shorthand handler in NormSpec.
MaxLen == 5

(***************************************************************************)
(* JavaScript string primitives used by the plugin.                        *)
(***************************************************************************)
Min(a, b) == IF a < b THEN a ELSE b

Max(a, b) == IF a > b THEN a ELSE b

\* \d of a JavaScript regular expression.
IsDigit(c) == c \in {"0", "1", "2", "3", "4", "5", "6", "7", "8", "9"}

\* String.prototype.lastIndexOf for a one-character needle: the 0-based index
\* of the last occurrence, -1 when there is none.
LastIndexOf(s, c) ==
  LET hits == {i \in 1..Len(s) : s[i] = c}
  IN  IF hits = {} THEN -1
      ELSE (CHOOSE i \in hits : \A j \in hits : j <= i) - 1

\* String.prototype.slice(begin, end) with 0-based, possibly negative, indices.
Slice(s, b, e) ==
  LET from == IF b < 0 THEN Max(Len(s) + b, 0) ELSE Min(b, Len(s))
      to   == IF e < 0 THEN Max(Len(s) + e, 0) ELSE Min(e, Len(s))
  IN  SubSeq(s, from + 1, to)

\* String.prototype.slice(begin): up to the end of the string.
SliceFrom(s, b) == Slice(s, b, Len(s))

\* Number of consecutive digits of s starting at the 1-based position i: the
\* greedy match of (\d+).
RECURSIVE DigitRun(_, _)
DigitRun(s, i) ==
  IF i <= Len(s) /\ IsDigit(s[i]) THEN 1 + DigitRun(s, i + 1) ELSE 0

\* MatchesAt without the test that a digit follows.
MatchesAtAnyChar(s, i) ==
  /\ i + 2 <= Len(s)
  /\ s[i] = "\\"
  /\ s[i + 1] = "\\"

\* A match of /\\\\(\d+)/ starts at the 1-based position i of s.
MatchesAt(s, i) ==
  /\ i + 2 <= Len(s)
  /\ s[i] = "\\"
  /\ s[i + 1] = "\\"
  /\ IsDigit(s[i + 2])

\* Replacement without the captured digits.
ReplacementDropsDigits(digits) == <<"\\">>

\* What one match is replaced by: '\\$1', a backslash and the digits matched.
Replacement(digits) == <<"\\">> \o digits

\* re.replace(/\\\\(\d+)/g, '\\$1') from the 1-based position i on: matches
\* are found left to right and do not overlap.
RECURSIVE ReplaceFrom(_, _)
ReplaceFrom(s, i) ==
  IF i > Len(s) THEN <<>>
  ELSE IF MatchesAt(s, i)
       THEN LET n == DigitRun(s, i + 2)
            IN  Replacement(SubSeq(s, i + 2, i + 1 + n)) \o ReplaceFrom(s, i + 2 + n)
       ELSE <<s[i]>> \o ReplaceFrom(s, i + 1)

\* The shorthand handler's normalisation of the raw chunk.
NormalizeBackrefs(re) == ReplaceFrom(re, 1)

(***************************************************************************)
(* The Translation Engine, regexp-tree's compatTranspile, as the plugin    *)
(* sees it: it takes the text of a regex literal and an optional whitelist *)
(* and either throws or returns a source and flags. In the model's         *)
(* alphabet "n" stands for the ?<name> prefix of a named group, "k" for a  *)
(* \k<name> backreference to group 1, " " for insignificant whitespace,    *)
(* and "A" for the character class a dotAll "." is rewritten to.           *)
(***************************************************************************)
Undefined == [tag |-> "undefined", elems |-> <<>>]

ArrayOf(elems) == [tag |-> "array", elems |-> elems]

NonArray(name) == [tag |-> "string", elems |-> <<name>>]

FeatureNames == {"dotAll", "namedCapturingGroups", "xFlag"}

EngineFlags == {"g", "i", "m", "s", "u", "y", "x"}

Elems(s) == {s[i] : i \in 1..Len(s)}

Without(s, c) == SelectSeq(s, LAMBDA ch : ch # c)

RECURSIVE Subst(_, _, _)
Subst(s, c, rep) ==
  IF s = <<>> THEN <<>>
  ELSE (IF Head(s) = c THEN rep ELSE <<Head(s)>>) \o Subst(Tail(s), c, rep)

\* Depth of open groups after reading s, -1 once a ")" closes nothing.
RECURSIVE GroupDepth(_, _)
GroupDepth(s, depth) ==
  IF depth < 0 \/ s = <<>> THEN depth
  ELSE IF Head(s) = "\\" THEN GroupDepth(SliceFrom(s, 2), depth)
  ELSE IF Head(s) = "(" THEN GroupDepth(Tail(s), depth + 1)
  ELSE IF Head(s) = ")" THEN GroupDepth(Tail(s), depth - 1)
  ELSE GroupDepth(Tail(s), depth)

\* The engine parses "/" body "/" flags and rejects anything else.
EngineAccepts(regexp) ==
  LET slashIndex == LastIndexOf(regexp, "/")
      body       == Slice(regexp, 1, slashIndex)
      flags      == SliceFrom(regexp, slashIndex + 1)
  IN  /\ Len(regexp) >= 3
      /\ regexp[1] = "/"
      /\ slashIndex >= 2
      /\ "/" \notin Elems(body)
      /\ Elems(flags) \subseteq EngineFlags
      /\ GroupDepth(body, 0) = 0

\* The transforms applied: the whitelist's, or all of them without one.
EngineFeatures(whitelist) ==
  IF whitelist.tag = "array" /\ Len(whitelist.elems) > 0
  THEN Elems(whitelist.elems)
  ELSE FeatureNames

TranslateX(re, features) ==
  IF "xFlag" \in features /\ "x" \in Elems(re.flags)
  THEN [pattern |-> Without(re.pattern, " "), flags |-> Without(re.flags, "x")]
  ELSE re

TranslateNamed(re, features) ==
  IF "namedCapturingGroups" \in features
  THEN [pattern |-> Subst(Without(re.pattern, "n"), "k", <<"\\", "1">>),
        flags   |-> re.flags]
  ELSE re

TranslateDotAll(re, features) ==
  IF "dotAll" \in features /\ "s" \in Elems(re.flags)
  THEN [pattern |-> Subst(re.pattern, ".", <<"A">>), flags |-> Without(re.flags, "s")]
  ELSE re

EngineFailure == [ok |-> FALSE, pattern |-> <<>>, flags |-> <<>>]

EngineResult(regexp, features) ==
  LET slashIndex == LastIndexOf(regexp, "/")
      parsed     == [pattern |-> Slice(regexp, 1, slashIndex),
                     flags   |-> SliceFrom(regexp, slashIndex + 1)]
      out        == TranslateDotAll(
                      TranslateNamed(TranslateX(parsed, features), features), features)
  IN  [ok |-> TRUE, pattern |-> out.pattern, flags |-> out.flags]

\* regexpTree.compatTranspile(regexp, whitelist): the set of outcomes the
\* plugin can get. What the engine does with a name it does not know is not
\* decided by this repository: it may throw or ignore the name.
compatTranspile(regexp, whitelist) ==
  IF ~EngineAccepts(regexp) THEN {EngineFailure}
  ELSE LET features == EngineFeatures(whitelist)
       IN  IF features \subseteq FeatureNames
           THEN {EngineResult(regexp, features)}
           ELSE {EngineFailure, EngineResult(regexp, features \cap FeatureNames)}

(***************************************************************************)
(* Plugin helpers of index.js.                                             *)
(***************************************************************************)
\* t.stringLiteral(value)
stringLiteral(value) == [type |-> "StringLiteral", value |-> value]

\* t.regExpLiteral(pattern, flags)
regExpLiteral(pattern, flags) ==
  [type |-> "RegExpLiteral", pattern |-> pattern, flags |-> flags]

\* Object.assign with the target's own fields kept.
ObjectAssignKeepsTarget(target, source) == target @@ source

\* Object.assign(target, source): source's fields win.
ObjectAssign(target, source) == source @@ target

toRegExpLiteral(raw) ==
  LET slashIndex == LastIndexOf(raw, "/")
      pattern    == Slice(raw, 1, slashIndex)
      flags      == SliceFrom(raw, slashIndex)
      re         == regExpLiteral(pattern, flags)
  IN  ObjectAssign(re, [extra |-> [raw |-> raw]])

\* getWhitelist without the test of the array's length.
getWhitelistAnyArray(o) ==
  IF o.features.tag = "array" THEN o.features ELSE Undefined

\* getWhitelist without the Array.isArray test.
getWhitelistAnyLength(o) ==
  IF Len(o.features.elems) > 0 THEN o.features ELSE Undefined

\* The whitelist getTranslatedData hands to the engine.
getWhitelist(o) ==
  IF o.features.tag = "array" /\ Len(o.features.elems) > 0
  THEN o.features
  ELSE Undefined

\* getTranslatedData with a whitelist that only the pass's first call gets.
getTranslatedDataFirstOnly(regexp, o) ==
  compatTranspile(regexp, IF calls = <<>> THEN getWhitelist(o) ELSE Undefined)

\* getTranslatedData(regexp, state): the engine's outcomes for the call.
getTranslatedData(regexp, o) == compatTranspile(regexp, getWhitelist(o))

\* isNewRegExp without the test of the callee's name.
isNewRegExpAnyCallee(node) ==
  /\ node.callee.type = "Identifier"
  /\ Len(node.arguments) >= 1
  /\ \/ node.arguments[1].type = "StringLiteral"
     \/ /\ node.arguments[1].type = "TemplateLiteral"
        /\ Len(node.arguments[1].expressions) = 0
        /\ Len(node.arguments[1].quasis) = 1

\* isNewRegExp asking a static string of the second argument as well.
isNewRegExpStaticFlags(node) ==
  /\ node.callee.type = "Identifier"
  /\ node.callee.name = "RegExp"
  /\ Len(node.arguments) >= 1
  /\ \/ node.arguments[1].type = "StringLiteral"
     \/ /\ node.arguments[1].type = "TemplateLiteral"
        /\ Len(node.arguments[1].expressions) = 0
        /\ Len(node.arguments[1].quasis) = 1
  /\ Len(node.arguments) >= 2 =>
       \/ node.arguments[2].type = "StringLiteral"
       \/ /\ node.arguments[2].type = "TemplateLiteral"
          /\ Len(node.arguments[2].expressions) = 0

isNewRegExp(node) ==
  /\ node.callee.type = "Identifier"
  /\ node.callee.name = "RegExp"
  /\ Len(node.arguments) >= 1
  /\ \/ node.arguments[1].type = "StringLiteral"
     \/ /\ node.arguments[1].type = "TemplateLiteral"
        /\ Len(node.arguments[1].expressions) = 0
        /\ Len(node.arguments[1].quasis) = 1

\* isReTemplate without the test of the number of chunks.
isReTemplateAnyChunks(node) ==
  /\ node.tag.type = "Identifier"
  /\ node.tag.name = "re"
  /\ node.quasi.type = "TemplateLiteral"

isReTemplate(node) ==
  /\ node.tag.type = "Identifier"
  /\ node.tag.name = "re"
  /\ node.quasi.type = "TemplateLiteral"
  /\ Len(node.quasi.quasis) = 1

\* ArgText reading a template chunk's raw text instead of its cooked value.
ArgTextRaw(arg) ==
  IF arg.type = "StringLiteral" THEN arg.value
  ELSE IF arg.type = "TemplateLiteral" THEN arg.quasis[1].value.raw
  ELSE <<>>

\* The pattern text the NewExpression handler reads from the first argument.
ArgText(arg) ==
  IF arg.type = "StringLiteral" THEN arg.value
  ELSE IF arg.type = "TemplateLiteral" THEN arg.quasis[1].value.cooked
  ELSE <<>>

\* let flags = ''; if (node.arguments[1]) { ... }
FlagsText(arguments) ==
  IF Len(arguments) >= 2 THEN ArgText(arguments[2]) ELSE <<>>

\* `/${pattern}/${flags}`
RegExpText(node) ==
  <<"/">> \o ArgText(node.arguments[1]) \o <<"/">> \o FlagsText(node.arguments)

\* RuntimeRequested with the option's first name kept in both revisions.
RuntimeRequestedOldName(v, o) == o.includeRuntime

\* if (state.opts.includeRuntime) / if (state.opts.useRuntime)
RuntimeRequested(v, o) == IF v = 1 THEN o.includeRuntime ELSE o.useRuntime

(***************************************************************************)
(* The trees and configurations the pass is run on.                        *)
(***************************************************************************)
\* The cooked value of a template chunk: every escape \c decodes to c.
RECURSIVE Cook(_)
Cook(raw) ==
  IF raw = <<>> THEN <<>>
  ELSE IF Head(raw) = "\\" /\ Len(raw) >= 2 THEN <<raw[2]>> \o Cook(SliceFrom(raw, 2))
  ELSE <<Head(raw)>> \o Cook(Tail(raw))

Quasi(raw) == [value |-> [raw |-> raw, cooked |-> Cook(raw)]]

\* A template literal with the given static chunks; one expression sits
\* between two neighbouring chunks.
TemplateLiteral(chunks) ==
  [type        |-> "TemplateLiteral",
   quasis      |-> [k \in 1..Len(chunks) |-> Quasi(chunks[k])],
   expressions |-> [k \in 1..(Len(chunks) - 1) |-> [type |-> "Identifier", name |-> "x"]]]

Identifier(name) == [type |-> "Identifier", name |-> name]

MemberExpression(object, property) ==
  [type |-> "MemberExpression", object |-> Identifier(object),
   property |-> Identifier(property)]

\* A regex literal as the parser delivers it.
ParsedRegExp(pattern, flags) ==
  [type |-> "RegExpLiteral", pattern |-> pattern, flags |-> flags,
   extra |-> [raw |-> <<"/">> \o pattern \o <<"/">> \o flags]]

NewExpression(callee, arguments) ==
  [type |-> "NewExpression", callee |-> callee, arguments |-> arguments]

TaggedTemplate(tag, chunks) ==
  [type |-> "TaggedTemplateExpression", tag |-> tag, quasi |-> TemplateLiteral(chunks)]

\* (?<name>x)\k<name>
NamedGroup == <<"(", "n", "x", ")", "k">>

\* /(?<name>x)\\1\k<name>/ as written inside a template
ShorthandFixture == <<"/", "(", "n", "x", ")", "\\", "\\", "1", "k", "/">>

\* \\a as written inside a template: its cooked value is \a
EscapedChunk == <<"\\", "\\", "a">>

SampleNodes ==
  { ParsedRegExp(NamedGroup, <<>>),
    ParsedRegExp(<<".">>, <<"s">>),
    ParsedRegExp(<<"(">>, <<>>),
    NewExpression(Identifier("RegExp"),
                  <<stringLiteral(<<"a", " ", "b">>), stringLiteral(<<"x">>),
                    Identifier("extra")>>),
    NewExpression(Identifier("RegExp"), <<TemplateLiteral(<<NamedGroup>>)>>),
    NewExpression(Identifier("RegExp"), <<stringLiteral(<<"(">>)>>),
    NewExpression(Identifier("RegExp"),
                  <<stringLiteral(<<"a">>), Identifier("flags")>>),
    NewExpression(Identifier("RegExp"),
                  <<TemplateLiteral(<<EscapedChunk>>), TemplateLiteral(<<<<"g">>>>)>>),
    NewExpression(Identifier("RegExp"),
                  <<stringLiteral(<<"a">>), TemplateLiteral(<<<<"g">>, <<"i">>>>)>>),
    NewExpression(Identifier("RegExp"), <<TemplateLiteral(<<<<"a">>, <<"b">>>>)>>),
    NewExpression(Identifier("RegExp"), <<Identifier("source")>>),
    NewExpression(Identifier("RegExp"), <<>>),
    NewExpression(Identifier("Foo"), <<stringLiteral(<<"a">>)>>),
    NewExpression(MemberExpression("lib", "RegExp"), <<stringLiteral(<<"a">>)>>),
    TaggedTemplate(Identifier("re"), <<ShorthandFixture>>),
    TaggedTemplate(Identifier("re"), <<<<"/", "(", "/">>>>),
    TaggedTemplate(Identifier("re"), <<<<"/", "a">>, <<"b", "/">>>>),
    TaggedTemplate(Identifier("tag"), <<<<"/", "a", "/">>>>),
    TaggedTemplate(MemberExpression("lib", "re"), <<<<"/", "a", "/">>>>) }

\* The constructs combined in trees of several nodes: every matched shape,
\* well-formed and malformed, and one rejected shape of each kind.
CoreNodes ==
  { ParsedRegExp(NamedGroup, <<>>),
    ParsedRegExp(<<"(">>, <<>>),
    NewExpression(Identifier("RegExp"),
                  <<stringLiteral(<<"a", " ", "b">>), stringLiteral(<<"x">>),
                    Identifier("extra")>>),
    NewExpression(Identifier("RegExp"), <<stringLiteral(<<"(">>)>>),
    NewExpression(Identifier("Foo"), <<stringLiteral(<<"a">>)>>),
    TaggedTemplate(Identifier("re"), <<ShorthandFixture>>),
    TaggedTemplate(Identifier("re"), <<<<"/", "(", "/">>>>),
    TaggedTemplate(Identifier("tag"), <<<<"/", "a", "/">>>>) }

Trees ==
  [1..1 -> SampleNodes] \cup UNION {[1..n -> CoreNodes] : n \in 2..MaxNodes}

FeatureValues ==
  { Undefined,
    ArrayOf(<<>>),
    NonArray("xFlag"),
    ArrayOf(<<"xFlag">>),
    ArrayOf(<<"namedCapturingGroups", "xFlag">>),
    ArrayOf(<<"bogus">>) }

Configs ==
  [includeRuntime : BOOLEAN, useRuntime : BOOLEAN, useRe : BOOLEAN,
   features : FeatureValues]

Versions == {1, 2}

Nodes == 1..Len(tree)

(***************************************************************************)
(* The pass.                                                               *)
(***************************************************************************)
Init ==
  /\ version \in Versions
  /\ opts \in Configs
  /\ tree \in Trees
  /\ orig = tree
  /\ status = [i \in 1..Len(tree) |-> "unvisited"]
  /\ calls = <<>>
  /\ pc = "start"

\* pre(state)
Pre ==
  /\ pc = "start"
  /\ pc' = IF RuntimeRequested(version, opts) THEN "configError" ELSE "visiting"
  /\ UNCHANGED <<version, opts, tree, orig, status, calls>>

\* A handler about to run on node i: not yet visited, or put back on the
\* queue by path.replaceWith.
Pending(i) == pc = "visiting" /\ status[i] \in {"unvisited", "requeued"}

\* One call of getTranslatedData, made while node i is handled, that returns
\* r, or throws when r.ok is false.
Translated(i, regexp, r) ==
  /\ r \in getTranslatedData(regexp, opts)
  /\ calls' = Append(calls, [node |-> i, regexp |-> regexp,
                             whitelist |-> getWhitelist(opts)])

\* The handler threw: the host aborts the pass.
Thrown(i) ==
  /\ pc' = "engineError"
  /\ status' = [status EXCEPT ![i] = "failed"]
  /\ tree' = tree

\* RegExpLiteral({node}, state)
RegExpLiteral(i) ==
  /\ Pending(i)
  /\ tree[i].type = "RegExpLiteral"
  /\ \E r \in getTranslatedData(tree[i].extra.raw, opts) :
       /\ Translated(i, tree[i].extra.raw, r)
       /\ IF r.ok
          THEN /\ tree' = [tree EXCEPT ![i] =
                             ObjectAssign(@, [pattern |-> r.pattern, flags |-> r.flags])]
               /\ status' = [status EXCEPT ![i] = "rewritten"]
               /\ pc' = pc
          ELSE Thrown(i)
  /\ UNCHANGED <<version, opts, orig>>

\* TaggedTemplateExpression(path, state), current revision
TaggedTemplateExpression(i) ==
  /\ Pending(i)
  /\ version = 2
  /\ tree[i].type = "TaggedTemplateExpression"
  /\ IF ~opts.useRe \/ ~isReTemplate(tree[i])
     THEN /\ status' = [status EXCEPT ![i] = "skipped"]
          /\ tree' = tree
     ELSE LET re == NormalizeBackrefs(tree[i].quasi.quasis[1].value.raw)
          IN  /\ tree' = [tree EXCEPT ![i] = toRegExpLiteral(re)]
              /\ status' = [status EXCEPT ![i] = "requeued"]
  /\ UNCHANGED <<version, opts, orig, calls, pc>>

\* The first revision registers no handler for tagged templates.
NoHandler(i) ==
  /\ Pending(i)
  /\ version = 1
  /\ tree[i].type = "TaggedTemplateExpression"
  /\ status' = [status EXCEPT ![i] = "skipped"]
  /\ UNCHANGED <<version, opts, tree, orig, calls, pc>>

\* NewExpressionInPlace building a fresh two-element argument list.
NewExpressionInPlaceDropsRest(i) ==
  /\ Pending(i)
  /\ version = 1
  /\ tree[i].type = "NewExpression"
  /\ IF ~isNewRegExp(tree[i])
     THEN /\ status' = [status EXCEPT ![i] = "skipped"]
          /\ UNCHANGED <<tree, calls, pc>>
     ELSE \E r \in getTranslatedData(RegExpText(tree[i]), opts) :
            /\ Translated(i, RegExpText(tree[i]), r)
            /\ IF r.ok
               THEN /\ tree' = [tree EXCEPT ![i].arguments =
                                  <<stringLiteral(r.pattern), stringLiteral(r.flags)>>]
                    /\ status' = [status EXCEPT ![i] = "rewritten"]
                    /\ pc' = pc
               ELSE Thrown(i)
  /\ UNCHANGED <<version, opts, orig>>

\* NewExpression({node}, state), first revision: the arguments are rewritten
\* in place once the translation has returned.
NewExpressionInPlace(i) ==
  /\ Pending(i)
  /\ version = 1
  /\ tree[i].type = "NewExpression"
  /\ IF ~isNewRegExp(tree[i])
     THEN /\ status' = [status EXCEPT ![i] = "skipped"]
          /\ UNCHANGED <<tree, calls, pc>>
     ELSE \E r \in getTranslatedData(RegExpText(tree[i]), opts) :
            /\ Translated(i, RegExpText(tree[i]), r)
            /\ IF r.ok
               THEN /\ tree' = [tree EXCEPT ![i].arguments =
                                  <<stringLiteral(r.pattern), stringLiteral(r.flags)>>
                                    \o SliceFrom(@, 2)]
                    /\ status' = [status EXCEPT ![i] = "rewritten"]
                    /\ pc' = pc
               ELSE Thrown(i)
  /\ UNCHANGED <<version, opts, orig>>

\* NewExpression(path, state), current revision: the call is replaced by a
\* regex literal.
NewExpressionReplace(i) ==
  /\ Pending(i)
  /\ version = 2
  /\ tree[i].type = "NewExpression"
  /\ IF ~isNewRegExp(tree[i])
     THEN /\ status' = [status EXCEPT ![i] = "skipped"]
          /\ tree' = tree
     ELSE /\ tree' = [tree EXCEPT ![i] = toRegExpLiteral(RegExpText(tree[i]))]
          /\ status' = [status EXCEPT ![i] = "requeued"]
  /\ UNCHANGED <<version, opts, orig, calls, pc>>

\* The traversal has no node left to visit.
Finish ==
  /\ pc = "visiting"
  /\ \A i \in Nodes : status[i] \in {"skipped", "rewritten"}
  /\ pc' = "done"
  /\ UNCHANGED <<version, opts, tree, orig, status, calls>>

Next ==
  \/ Pre
  \/ \E i \in Nodes : RegExpLiteral(i)
  \/ \E i \in Nodes : TaggedTemplateExpression(i)
  \/ \E i \in Nodes : NoHandler(i)
  \/ \E i \in Nodes : NewExpressionInPlace(i)
  \/ \E i \in Nodes : NewExpressionReplace(i)
  \/ Finish

Spec == Init /\ [][Next]_vars

(***************************************************************************)
(* The shorthand handler alone, on every raw chunk up to MaxLen characters *)
(* over backslashes, digits and a letter.                                  *)
(***************************************************************************)
NormAlphabet == {"\\", "1", "2", "a"}

NormTexts == UNION {[1..n -> NormAlphabet] : n \in 0..MaxLen}

NormInit ==
  /\ version = 2
  /\ opts = [includeRuntime |-> FALSE, useRuntime |-> FALSE, useRe |-> TRUE,
             features |-> Undefined]
  /\ \E text \in NormTexts : tree = <<TaggedTemplate(Identifier("re"), <<text>>)>>
  /\ orig = tree
  /\ status = [i \in 1..Len(tree) |-> "unvisited"]
  /\ calls = <<>>
  /\ pc = "visiting"

NormNext == \E i \in Nodes : TaggedTemplateExpression(i)

NormSpec == NormInit /\ [][NormNext]_vars

(***************************************************************************)
(* Properties.                                                             *)
(***************************************************************************)
\* No handler has run and nothing of the tree has changed.
Untouched ==
  /\ tree = orig
  /\ calls = <<>>
  /\ \A i \in Nodes : status[i] = "unvisited"

\* C1, as claimed, of the current revision: when useRuntime or includeRuntime
\* is set, pre fails before any handler runs and the tree is unchanged; when
\* neither is set, pre does not fail.
C1_EitherNameFailsFast ==
  version = 2 =>
    /\ (opts.useRuntime \/ opts.includeRuntime) =>
         (pc \in {"start", "configError"} /\ Untouched)
    /\ ~(opts.useRuntime \/ opts.includeRuntime) => pc # "configError"

\* C1, amended: pre fails fast exactly when the option the running revision
\* reads is set (useRuntime in the current revision, includeRuntime in the
\* first); the other name is ignored and the pass proceeds.
C1_RuntimeOptionFailsFast ==
  LET requested == \/ version = 2 /\ opts.useRuntime
                   \/ version = 1 /\ opts.includeRuntime
  IN  /\ requested => (pc \in {"start", "configError"} /\ Untouched)
      /\ ~requested => pc # "configError"
      /\ pc = "configError" => requested

C1_Witness ==
  /\ pc = "configError"
  /\ version = 2
  /\ opts.useRuntime
  /\ Untouched

\* The constructor calls the claims call matched, stated on the node.
MatchedConstructor(node) ==
  /\ node.type = "NewExpression"
  /\ node.callee.type = "Identifier"
  /\ node.callee.name = "RegExp"
  /\ Len(node.arguments) >= 1
  /\ LET first == node.arguments[1]
     IN  \/ first.type = "StringLiteral"
         \/ /\ first.type = "TemplateLiteral"
            /\ Len(first.expressions) = 0
            /\ Len(first.quasis) = 1

\* C2: the NewExpression handler goes on to rewrite a call if and only if the
\* callee is the identifier RegExp and the first argument is a string literal
\* or a template literal with no expression and one quasi; on every other
\* call it returns and node, tree, engine and pass are as before.
C2_ConstructorMatchedIff ==
  /\ [](\A i \in Nodes :
          orig[i].type = "NewExpression" =>
            /\ status[i] = "skipped" => (~MatchedConstructor(orig[i]) /\ tree[i] = orig[i])
            /\ status[i] \in {"rewritten", "requeued", "failed"} =>
                 MatchedConstructor(orig[i]))
  /\ [][\A i \in Nodes :
          ( /\ tree[i].type = "NewExpression"
            /\ ~MatchedConstructor(tree[i])
            /\ status'[i] # status[i] ) =>
          ( /\ status'[i] = "skipped"
            /\ tree' = tree
            /\ calls' = calls
            /\ pc' = pc
            /\ \A j \in Nodes : j # i => status'[j] = status[j] )]_vars

C2_Witness ==
  \E i, j \in Nodes :
    /\ orig[i].type = "NewExpression"
    /\ orig[j].type = "NewExpression"
    /\ status[i] = "skipped"
    /\ orig[i].callee.type = "Identifier"
    /\ orig[i].callee.name = "Foo"
    /\ status[j] \in {"rewritten", "requeued"}
    /\ tree[j] # orig[j]

\* The engine's successful results for a matched constructor call.
ConstructorResults(node) ==
  {r \in compatTranspile(RegExpText(node), getWhitelist(opts)) : r.ok}

\* A matched constructor call rewritten in place: still the call, same callee,
\* first two arguments string literals with the translated pattern and flags,
\* later arguments as they were.
RewrittenInPlace(before, after) ==
  /\ after.type = "NewExpression"
  /\ after.callee = before.callee
  /\ Len(after.arguments) = Max(Len(before.arguments), 2)
  /\ \E r \in ConstructorResults(before) :
       /\ after.arguments[1] = [type |-> "StringLiteral", value |-> r.pattern]
       /\ after.arguments[2] = [type |-> "StringLiteral", value |-> r.flags]
  /\ \A k \in 3..Len(before.arguments) : after.arguments[k] = before.arguments[k]

\* C3, as claimed: every matched constructor call the handler has rewritten is
\* the same call node with its first two arguments replaced.
C3_AlwaysInPlace ==
  \A i \in Nodes :
    (MatchedConstructor(orig[i]) /\ status[i] \in {"rewritten", "requeued"}) =>
      RewrittenInPlace(orig[i], tree[i])

\* C3, amended: the first revision rewrites the call in place; the current
\* revision replaces the call by a regex-literal node whose raw text is
\* "/" + pattern + "/" + flags, so callee and arguments are gone.
C3_RewriteShape ==
  \A i \in Nodes :
    MatchedConstructor(orig[i]) =>
      /\ (version = 1 /\ status[i] = "rewritten") => RewrittenInPlace(orig[i], tree[i])
      /\ (version = 1 /\ status[i] # "rewritten") => tree[i] = orig[i]
      /\ (version = 2 /\ status[i] \in {"requeued", "rewritten", "failed"}) =>
           /\ tree[i].type = "RegExpLiteral"
           /\ DOMAIN tree[i] = {"type", "pattern", "flags", "extra"}
           /\ tree[i].extra.raw = RegExpText(orig[i])

C3_Witness ==
  \E i \in Nodes :
    /\ version = 1
    /\ status[i] = "rewritten"
    /\ MatchedConstructor(orig[i])
    /\ Len(orig[i].arguments) = 3
    /\ tree[i].arguments[3] = orig[i].arguments[3]
    /\ tree[i].arguments[1].value = <<"a", "b">>
    /\ tree[i].arguments[2].value = <<>>

\* The shorthand templates the claims call matched, stated on the node.
MatchedShorthand(node) ==
  /\ node.type = "TaggedTemplateExpression"
  /\ node.tag.type = "Identifier"
  /\ node.tag.name = "re"
  /\ Len(node.quasi.quasis) = 1
  /\ Len(node.quasi.expressions) = 0

\* C4: with useRe enabled, a matched re`/body/flags` template ends a completed
\* pass as a regex-literal node whose pattern and flags are the engine's
\* result for the normalized raw chunk, not the chunk's own text; the fixture
\* re`/(?<name>x)\\1\k<name>/` ends as /(x)\1\1/.
C4_ShorthandEndsTranslated ==
  (pc = "done" /\ version = 2 /\ opts.useRe) =>
    \A i \in Nodes :
      MatchedShorthand(orig[i]) =>
        LET chunk == NormalizeBackrefs(orig[i].quasi.quasis[1].value.raw)
        IN  /\ tree[i].type = "RegExpLiteral"
            /\ \E r \in compatTranspile(chunk, getWhitelist(opts)) :
                 /\ r.ok
                 /\ tree[i].pattern = r.pattern
                 /\ tree[i].flags = r.flags
            /\ ( /\ orig[i].quasi.quasis[1].value.raw = ShorthandFixture
                 /\ opts.features = Undefined ) =>
                 ( /\ tree[i].pattern = <<"(", "x", ")", "\\", "1", "\\", "1">>
                   /\ tree[i].flags = <<>> )

C4_Witness ==
  /\ pc = "done"
  /\ version = 2
  /\ opts.useRe
  /\ \E i \in Nodes :
       /\ MatchedShorthand(orig[i])
       /\ orig[i].quasi.quasis[1].value.raw = ShorthandFixture
       /\ tree[i].type = "RegExpLiteral"
       /\ tree[i].pattern = <<"(", "x", ")", "\\", "1", "\\", "1">>

\* C5: a tagged template is rewritten only when useRe is enabled, the tag is
\* the identifier re and the template has one chunk and no interpolation; in
\* every other case the handler leaves node, tree, engine and pass as before.
C5_ShorthandOnlyWhenEnabled ==
  /\ [](\A i \in Nodes :
          ( /\ orig[i].type = "TaggedTemplateExpression"
            /\ \/ tree[i] # orig[i]
               \/ status[i] \in {"requeued", "rewritten", "failed"} ) =>
          (version = 2 /\ opts.useRe /\ MatchedShorthand(orig[i])))
  /\ [][\A i \in Nodes :
          ( /\ tree[i].type = "TaggedTemplateExpression"
            /\ ~(opts.useRe /\ MatchedShorthand(tree[i]))
            /\ status'[i] # status[i] ) =>
          ( /\ status'[i] = "skipped"
            /\ tree' = tree
            /\ calls' = calls
            /\ pc' = pc
            /\ \A j \in Nodes : j # i => status'[j] = status[j] )]_vars

C5_Witness ==
  \E i, j \in Nodes :
    /\ version = 2
    /\ opts.useRe
    /\ MatchedShorthand(orig[i])
    /\ status[i] = "requeued"
    /\ tree[i].type = "RegExpLiteral"
    /\ orig[j].type = "TaggedTemplateExpression"
    /\ orig[j].tag.name = "tag"
    /\ status[j] = "skipped"
    /\ tree[j] = orig[j]

\* C6: every call of the engine gets the features option itself when that is
\* a non-empty array, and no whitelist when the option is absent or an empty
\* array; every translated construct of the pass went through such a call.
C6_WhitelistFromFeatures ==
  /\ \A k \in 1..Len(calls) :
       /\ (opts.features.tag = "array" /\ opts.features.elems # <<>>) =>
            ( /\ calls[k].whitelist.tag = "array"
              /\ calls[k].whitelist.elems = opts.features.elems )
       /\ (opts.features.tag = "undefined" \/ opts.features = [tag |-> "array", elems |-> <<>>]) =>
            calls[k].whitelist = [tag |-> "undefined", elems |-> <<>>]
  /\ Len(calls) = Cardinality({i \in Nodes : status[i] \in {"rewritten", "failed"}})

C6_Witness ==
  /\ Len(calls) = 2
  /\ opts.features.elems = <<"namedCapturingGroups", "xFlag">>
  /\ \A k \in 1..2 : calls[k].whitelist.elems = <<"namedCapturingGroups", "xFlag">>
  /\ \A i \in Nodes : status[i] = "rewritten"

\* The raw chunk given to the shorthand handler and the text it built the
\* literal from.
ChunkIn(i) == orig[i].quasi.quasis[1].value.raw

ChunkOut(i) == tree[i].extra.raw

AllDigits(s) == s # <<>> /\ \A k \in 1..Len(s) : IsDigit(s[k])

\* Somewhere in s two backslashes stand right before a digit.
HasDoubledBeforeDigit(s) ==
  \E k \in 1..Len(s) :
    k + 2 <= Len(s) /\ s[k] = "\\" /\ s[k + 1] = "\\" /\ IsDigit(s[k + 2])

\* C7: normalizing backslash-backslash-d, d a non-empty digit sequence,
\* yields backslash-d; a text whose digits are nowhere preceded by a doubled
\* backslash is left unchanged.
C7_EscapeSymmetry ==
  \A i \in Nodes :
    (MatchedShorthand(orig[i]) /\ status[i] = "requeued") =>
      /\ ( /\ Len(ChunkIn(i)) >= 3
           /\ ChunkIn(i)[1] = "\\"
           /\ ChunkIn(i)[2] = "\\"
           /\ AllDigits(SubSeq(ChunkIn(i), 3, Len(ChunkIn(i)))) ) =>
           ChunkOut(i) = SubSeq(ChunkIn(i), 2, Len(ChunkIn(i)))
      /\ ~HasDoubledBeforeDigit(ChunkIn(i)) => ChunkOut(i) = ChunkIn(i)

C7_Witness ==
  \E i \in Nodes :
    /\ status[i] = "requeued"
    /\ ChunkIn(i) = <<"\\", "\\", "1", "2">>
    /\ ChunkOut(i) = <<"\\", "1", "2">>

\* The chunks every parser accepts inside a template: no backslash is left
\* without a character to escape, and none escapes a digit (an octal escape).
RECURSIVE TemplateSafe(_)
TemplateSafe(s) ==
  IF s = <<>> THEN TRUE
  ELSE IF Head(s) # "\\" THEN TemplateSafe(Tail(s))
  ELSE Len(s) >= 2 /\ ~IsDigit(s[2]) /\ TemplateSafe(SliceFrom(s, 2))

\* Number of consecutive backslashes of s starting at the 1-based position i.
RECURSIVE BackslashRun(_, _)
BackslashRun(s, i) ==
  IF i <= Len(s) /\ s[i] = "\\" THEN 1 + BackslashRun(s, i + 1) ELSE 0

\* The chunk with only its doubled-backslash backreferences normalized, four
\* backslashes before a digit being an escaped backslash and not one: a run of
\* exactly two backslashes right before a digit loses one backslash, every
\* other run of backslashes and every other character is copied.
RECURSIVE ExactPairsNormalized(_, _)
ExactPairsNormalized(s, i) ==
  IF i > Len(s) THEN <<>>
  ELSE IF s[i] # "\\" THEN <<s[i]>> \o ExactPairsNormalized(s, i + 1)
  ELSE LET run   == BackslashRun(s, i)
           after == i + run
           kept  == IF run = 2 /\ after <= Len(s) /\ IsDigit(s[after]) THEN 1 ELSE run
       IN  SubSeq(s, i, i + kept - 1) \o ExactPairsNormalized(s, after)

RECURSIVE OnlyBackrefsNormalized(_)
OnlyBackrefsNormalized(s) ==
  IF s = <<>> THEN <<>>
  ELSE IF Head(s) # "\\" THEN <<Head(s)>> \o OnlyBackrefsNormalized(Tail(s))
  ELSE IF Len(s) >= 3 /\ s[2] = "\\" /\ IsDigit(s[3])
       THEN LET n == DigitRun(s, 3)
            IN  <<"\\">> \o SubSeq(s, 3, 2 + n) \o OnlyBackrefsNormalized(SliceFrom(s, 2 + n))
  ELSE IF Len(s) >= 2 THEN <<s[1], s[2]>> \o OnlyBackrefsNormalized(SliceFrom(s, 2))
  ELSE s

C9_FailureLeavesOriginal ==
  \A i \in Nodes : status[i] = "failed" => tree[i] = orig[i]

\* The features values that are a non-empty sequence of recognized names.
RecognizedFeatures(f) ==
  /\ f.tag = "array"
  /\ f.elems # <<>>
  /\ \A k \in 1..Len(f.elems) :
       f.elems[k] \in {"dotAll", "namedCapturingGroups", "xFlag"}

\* C10, as claimed: unless features is a non-empty sequence of recognized
\* names, the engine is called without a whitelist.
C10_AnyOtherShapeUnrestricted ==
  ~RecognizedFeatures(opts.features) =>
    \A k \in 1..Len(calls) : calls[k].whitelist = [tag |-> "undefined", elems |-> <<>>]

\* C10, amended: a features value that is not an array, or an empty array, is
\* treated as no restriction: the engine is called without a whitelist and
\* fails only on a text it rejects; a non-empty array is handed to the engine
\* as it is, unrecognized names included.
C10_NonArrayOrEmptyUnrestricted ==
  /\ (opts.features.tag # "array" \/ opts.features.elems = <<>>) =>
       /\ \A k \in 1..Len(calls) :
            calls[k].whitelist = [tag |-> "undefined", elems |-> <<>>]
       /\ pc = "engineError" => ~EngineAccepts(calls[Len(calls)].regexp)
  /\ (opts.features.tag = "array" /\ opts.features.elems # <<>>) =>
       \A k \in 1..Len(calls) : calls[k].whitelist = opts.features

C10_Witness ==
  /\ opts.features.tag = "string"
  /\ Len(calls) = 2
  /\ \A k \in 1..2 : calls[k].whitelist.tag = "undefined"
  /\ pc = "done"

\* An argument that is a static string: a string literal, or a template
\* literal of one chunk without interpolation.
StaticString(arg) ==
  \/ arg.type = "StringLiteral"
  \/ /\ arg.type = "TemplateLiteral"
     /\ Len(arg.expressions) = 0
     /\ Len(arg.quasis) = 1

\* Its text: the literal's value, or the chunk's cooked value.
StaticText(arg) ==
  IF arg.type = "StringLiteral" THEN arg.value ELSE arg.quasis[1].value.cooked

\* The engine calls made while node i was handled.
CallsFor(i) == {k \in 1..Len(calls) : calls[k].node = i}

\* C11: for a matched constructor call the text sent to the engine is
\* "/" + pattern + "/" + flags, pattern being the first argument's string
\* value or its chunk's cooked value, flags the same of the second argument,
\* and the empty string when there is no second argument.
C11_EngineTextFromArguments ==
  \A i \in Nodes :
    LET args == orig[i].arguments
    IN  ( /\ MatchedConstructor(orig[i])
          /\ Len(args) >= 2 => StaticString(args[2]) ) =>
          /\ status[i] \in {"rewritten", "failed"} => CallsFor(i) # {}
          /\ \A k \in CallsFor(i) :
               calls[k].regexp =
                 <<"/">> \o StaticText(args[1]) \o <<"/">>
                   \o (IF Len(args) >= 2 THEN StaticText(args[2]) ELSE <<>>)

C11_Witness ==
  \E i \in Nodes :
    /\ MatchedConstructor(orig[i])
    /\ orig[i].arguments[1].type = "TemplateLiteral"
    /\ orig[i].arguments[1].quasis[1].value.raw = <<"\\", "\\", "a">>
    /\ status[i] = "rewritten"
    /\ \E k \in CallsFor(i) : calls[k].regexp = <<"/", "\\", "a", "/", "g">>

\* C12: every regex-literal node the plugin has created (toRegExpLiteral) or
\* rewritten (RegExpLiteral handler) has raw = "/" + pattern + "/" + flags,
\* when it is created and after every later handler.
C12_RawIsPatternAndFlags ==
  \A i \in Nodes :
    (tree[i].type = "RegExpLiteral" /\ status[i] \in {"requeued", "rewritten", "failed"}) =>
      tree[i].extra.raw = <<"/">> \o tree[i].pattern \o <<"/">> \o tree[i].flags

\* C13: each construct goes once through Matched, Extracted, Normalized,
\* Translated, Rewritten, in that order: its node is mutated or replaced only
\* after its translation by the engine has completed, it is translated at most
\* once, and a finished construct is not taken up again.
C13_TranslatedBeforeRewritten ==
  /\ [](\A i \in Nodes :
          /\ tree[i] # orig[i] => (CallsFor(i) # {} /\ status[i] = "rewritten")
          /\ Cardinality(CallsFor(i)) <= 1)
  /\ [][\A i \in Nodes :
          status[i] \in {"skipped", "rewritten", "failed"} =>
            (status'[i] = status[i] /\ tree'[i] = tree[i])]_vars

\* The engine's successful result for a text under the configuration.
ConfiguredResult(text) ==
  CHOOSE r \in compatTranspile(text, getWhitelist(opts)) : r.ok

\* A regex literal with the engine's result for its raw text assigned.
TranslatedLiteral(literal) ==
  LET r == ConfiguredResult(literal.extra.raw)
  IN  [type |-> "RegExpLiteral", pattern |-> r.pattern, flags |-> r.flags,
       extra |-> literal.extra]

\* What a completed pass leaves of one construct, from that construct and the
\* configuration alone.
FinalOf(node) ==
  IF node.type = "RegExpLiteral" THEN TranslatedLiteral(node)
  ELSE IF MatchedConstructor(node)
    THEN IF version = 1
         THEN LET r == ConfiguredResult(RegExpText(node))
              IN  [node EXCEPT !.arguments =
                     <<[type |-> "StringLiteral", value |-> r.pattern],
                       [type |-> "StringLiteral", value |-> r.flags]>>
                       \o SubSeq(@, 3, Len(@))]
         ELSE TranslatedLiteral(toRegExpLiteral(RegExpText(node)))
  ELSE IF MatchedShorthand(node) /\ version = 2 /\ opts.useRe
    THEN TranslatedLiteral(
           toRegExpLiteral(NormalizeBackrefs(node.quasi.quasis[1].value.raw)))
  ELSE node

\* C14: for a fixed configuration the tree a completed pass leaves is the same
\* whatever the order of the visits: every node ends as a function of its own
\* original and the configuration, and a handler's step writes only the node
\* it handles and leaves the configuration alone.
C14_OrderIndependent ==
  /\ [](pc = "done" => \A i \in Nodes : tree[i] = FinalOf(orig[i]))
  /\ [][\A i, j \in Nodes :
          (status'[i] # status[i] /\ j # i) =>
            (tree'[j] = tree[j] /\ status'[j] = status[j])]_vars
  /\ [][opts' = opts /\ version' = version]_vars

\* A completed pass that handled its second construct before its first.
C14_Witness ==
  /\ pc = "done"
  /\ Len(tree) = 2
  /\ Len(calls) = 2
  /\ calls[1].node = 2
  /\ calls[2].node = 1
  /\ \A i \in Nodes : status[i] = "rewritten" /\ tree[i] # orig[i]
  /\ opts.features.elems = <<"xFlag">>

\* A matched constructor call whose second argument is there and is not a
\* static string.
DynamicFlags(node) ==
  /\ MatchedConstructor(node)
  /\ Len(node.arguments) >= 2
  /\ ~StaticString(node.arguments[2])

\* The flags read from such an argument: the first chunk's cooked text of an
\* interpolated template, the empty string of anything else.
DynamicFlagsText(arg) ==
  IF arg.type = "TemplateLiteral" THEN arg.quasis[1].value.cooked ELSE <<>>

\* C15: a matched constructor call with a second argument that is not a
\* static string is still rewritten: the flags sent to the engine are the
\* empty string (the first chunk's cooked text for an interpolated template)
\* and the rewritten node no longer holds the original second argument.
C15_DynamicFlagsDiscarded ==
  \A i \in Nodes :
    DynamicFlags(orig[i]) =>
      LET args == orig[i].arguments
          text == <<"/">> \o StaticText(args[1]) \o <<"/">> \o DynamicFlagsText(args[2])
      IN  /\ status[i] # "skipped"
          /\ \A k \in CallsFor(i) : calls[k].regexp = text
          /\ status[i] = "rewritten" =>
               /\ CallsFor(i) # {}
               /\ IF version = 1
                  THEN /\ tree[i].type = "NewExpression"
                       /\ tree[i].arguments[2] =
                            [type |-> "StringLiteral", value |-> ConfiguredResult(text).flags]
                       /\ tree[i].arguments[2] # args[2]
                  ELSE /\ tree[i].type = "RegExpLiteral"
                       /\ tree[i].flags = ConfiguredResult(text).flags
                       /\ tree[i].extra.raw = text

C15_Witness ==
  \E i \in Nodes :
    /\ DynamicFlags(orig[i])
    /\ orig[i].arguments[2].type = "TemplateLiteral"
    /\ Len(orig[i].arguments[2].expressions) = 1
    /\ status[i] = "rewritten"
    /\ \E k \in CallsFor(i) : calls[k].regexp = <<"/", "a", "/", "g">>
    /\ version = 1
    /\ tree[i].arguments[2] = [type |-> "StringLiteral", value |-> <<"g">>]

====
